---- MODULE Spec2Model ----
(***************************************************************************)
(* Model of src/main.rs: a CLI that downloads one S3 object to a local     *)
(* file, either as one sequential stream (get_object) or as ranged         *)
(* requests fetched by concurrently spawned tasks and written in           *)
(* partition order (get_object_multipart / download_part).                 *)
(*                                                                         *)
(* Offsets and sizes are u64 in the source.  content_length is an i64, so  *)
(* object_size < 2^63 and `end += chunk_size` cannot wrap; the model uses  *)
(* unbounded naturals for them.                                            *)
(***************************************************************************)
EXTENDS Integers, Sequences, FiniteSets, TLC

\* ---------------------------------------------------------------- bounds
\* Largest object size explored by Spec.
MaxSize == 4
\* Largest chunk_size explored by Spec (the program fixes 10 MiB; the model
\* scales it down so that several ranges fit in MaxSize).
MaxChunk == 2
\* Capacity of the BufWriter (8 KiB in tokio), scaled down.
BufCap == 2
\* Largest object size / chunk size explored by SpecPartition.
MaxPartSize == 40
MaxPartChunk == 8

\* ------------------------------------------------------ program constants
\* let chunk_size = 10 * 1024 * 1024;
DefaultChunkSize == 10 * 1024 * 1024
\* The 25 MiB object of the boundary scenario.
ScenarioSize == 25 * 1024 * 1024
\* Exit status of std::process::exit(1).
ExitFailure == 1
\* Exit status of a Rust process whose main thread panicked (unwinding
\* build), and of one aborted by the panic (panic = "abort" build).
ExitPanic == 101
ExitAbort == 134

VARIABLES
    mode,        \* opts.multipart: "multipart" or "sequential"
    obj_size,    \* size of the source object in the store
    chunk_size,  \* the local chunk_size of get_object_multipart
    pc,          \* position of main / the transfer function
    file,        \* bytes of the destination file on disk
    wbuf,        \* bytes held in the BufWriter's internal buffer
    sink,        \* bytes accepted by completed write_all calls, in order
    written,     \* ordinals of the tasks whose buffer was written, in order
    head,        \* outcome of head_object: "none", "ok", "nosize", "err"
    tasks,       \* the Vec of spawned download_part tasks
    start,       \* loop variable start
    end,         \* loop variable end
    joined,      \* number of tasks the join loop has consumed
    byte_count,  \* running byte count
    pos,         \* bytes of the unranged stream delivered so far
    chunks,      \* lengths of the chunks get_object has written, in order
    result,      \* value returned by the transfer function
    exit_code,   \* process exit status (-1 while running)
    stderr,      \* error printed to standard error ("" if none)
    stdout       \* byte count printed to standard output (-1 if none)

vars == <<mode, obj_size, chunk_size, pc, file, wbuf, sink, written, head,
          tasks, start, end, joined, byte_count, pos, chunks, result,
          exit_code, stderr, stdout>>

\* ---------------------------------------------------------------- helpers
Min(a, b) == IF a < b THEN a ELSE b

\* The source object's bytes: the byte at offset i is i mod 256, so that
\* any reordering, loss or duplication of bytes is visible.
Content(size) == [i \in 1..size |-> (i - 1) % 256]

\* Body of a ranged GET "bytes=s-e" on an object of `size` bytes
\* (closed-inclusive, truncated by the server at the last byte).
RangeBody(s, e, size) == SubSeq(Content(size), s + 1, Min(e, size - 1) + 1)

\* A ranged GET is satisfiable iff it starts inside the object and s <= e.
Satisfiable(s, e, size) == s < size /\ s <= e

\* Contents of the destination path before the program runs.
OldContents == <<255>>

NoResult == [kind |-> "none", n |-> 0, err |-> "", task |-> 0]
OkResult(n) == [kind |-> "Ok", n |-> n, err |-> "", task |-> 0]
ErrResult(e, t) == [kind |-> "Err", n |-> 0, err |-> e, task |-> t]

\* task::spawn(download_part(client, opt, start, end)).  `sent` counts the
\* ranged requests the task has issued; `early` records that the task
\* produced its result (Ok or Err) while the task spawned just before it
\* was still running; `late` records that it produced its result after
\* the transfer function had returned.
NewTask(s, e) == [start |-> s, end |-> e, st |-> "spawned", buf |-> <<>>,
                  err |-> "", sent |-> 0, early |-> FALSE, late |-> FALSE]

\* -------------------------------------------------------- partition loop
\* let mut end: u64 = chunk_size;
FirstEnd(c) == c

\* Mutation: one offset is skipped between consecutive ranges.
NextStartGap(e) == e + 2

\* Mutation: the next range starts on the previous range's last byte.
NextStartOverlap(e) == e

\* start = end + 1;
NextStart(e) == e + 1

\* Mutation: the loop also runs when start has reached object_size.
LoopCondInclusive(s, size) == s <= size

\* while start < object_size as u64
LoopCond(s, size) == s < size

\* end += chunk_size; if end > object_size { end = object_size; }
NextEnd(e, c, size) == IF e + c > size THEN size ELSE e + c

\* ------------------------------------------------------------- BufWriter
\* write_all(b) on the BufWriter: flush the internal buffer first when b
\* does not fit; a buffer of at least the capacity bypasses the internal
\* buffer, a smaller one is only stored in it.
NeedsFlush(w, b) == Len(w) + Len(b) > BufCap
Bypasses(b) == Len(b) >= BufCap
BufFile(f, w, b) ==
    (IF NeedsFlush(w, b) THEN f \o w ELSE f) \o (IF Bypasses(b) THEN b ELSE <<>>)
BufKeep(w, b) ==
    (IF NeedsFlush(w, b) THEN <<>> ELSE w) \o (IF Bypasses(b) THEN <<>> ELSE b)
\* Bytes write_all(b) hands to the file itself.
BufIO(w, b) ==
    (IF NeedsFlush(w, b) THEN w ELSE <<>>) \o (IF Bypasses(b) THEN b ELSE <<>>)

\* Dropping the BufWriter at the end of the function discards what its
\* internal buffer still holds (nothing calls flush).
DropWriter(w) == <<>>

\* ------------------------------------------------------------------ Init
InitCommon ==
    /\ mode \in {"multipart", "sequential"}
    /\ file = OldContents
    /\ wbuf = <<>>
    /\ sink = <<>>
    /\ written = <<>>
    /\ head = "none"
    /\ tasks = <<>>
    /\ start = 0
    /\ end = 0
    /\ joined = 0
    /\ byte_count = 0
    /\ pos = 0
    /\ chunks = <<>>
    /\ result = NoResult
    /\ exit_code = -1
    /\ stderr = ""
    /\ stdout = -1
    /\ pc = "create"

Init ==
    /\ obj_size \in 0..MaxSize
    /\ chunk_size \in 1..MaxChunk
    /\ InitCommon

\* State after head_object reported the size, for the partition loop alone:
\* small sizes and chunk sizes, and the program's own chunk_size with the
\* 25 MiB object.
InitPartition ==
    /\ \E input \in ((0..MaxPartSize) \X (1..MaxPartChunk))
                        \cup {<<ScenarioSize, DefaultChunkSize>>} :
          /\ obj_size = input[1]
          /\ chunk_size = input[2]
    /\ mode = "multipart"
    /\ file = <<>>
    /\ wbuf = <<>>
    /\ sink = <<>>
    /\ written = <<>>
    /\ head = "ok"
    /\ tasks = <<>>
    /\ start = 0
    /\ end = FirstEnd(chunk_size)
    /\ joined = 0
    /\ byte_count = 0
    /\ pos = 0
    /\ chunks = <<>>
    /\ result = NoResult
    /\ exit_code = -1
    /\ stderr = ""
    /\ stdout = -1
    /\ pc = "partition"

\* Return from the transfer function with value r.
Return(r) ==
    /\ result' = r
    /\ pc' = "returned"
    /\ wbuf' = DropWriter(wbuf)

\* ---------------------------------------------------------- shared steps
\* Mutation: the destination is opened without truncating it.
CreateFileKeep ==
    /\ pc = "create"
    /\ pc' = IF mode = "multipart" THEN "head" ELSE "send"
    /\ UNCHANGED <<mode, obj_size, chunk_size, file, wbuf, sink, written, head,
                   tasks, start, end, joined, byte_count, pos, chunks, result,
                   exit_code, stderr, stdout>>

\* File::create(opt.destination.clone()).await?  -- truncate-create.
CreateFile ==
    /\ pc = "create"
    /\ file' = <<>>
    /\ pc' = IF mode = "multipart" THEN "head" ELSE "send"
    /\ UNCHANGED <<mode, obj_size, chunk_size, wbuf, sink, written, head, tasks,
                   start, end, joined, byte_count, pos, chunks, result, exit_code,
                   stderr, stdout>>

CreateFileFail ==
    /\ pc = "create"
    /\ Return(ErrResult("CreateErr", 0))
    /\ UNCHANGED <<mode, obj_size, chunk_size, file, sink, written, head, tasks,
                   start, end, joined, byte_count, pos, chunks, exit_code, stderr,
                   stdout>>

\* ---------------------------------------------------- get_object_multipart
\* head_object().send().await? fails.
HeadFail ==
    /\ pc = "head"
    /\ head' = "err"
    /\ Return(ErrResult("HeadErr", 0))
    /\ UNCHANGED <<mode, obj_size, chunk_size, file, sink, written, tasks,
                   start, end, joined, byte_count, pos, chunks, exit_code, stderr,
                   stdout>>

\* head_object succeeds and content_length is Some(object_size): unwrap()
\* yields it and the loop variables are initialised.
HeadOk ==
    /\ pc = "head"
    /\ head' = "ok"
    /\ start' = 0
    /\ end' = FirstEnd(chunk_size)
    /\ pc' = "partition"
    /\ UNCHANGED <<mode, obj_size, chunk_size, file, wbuf, sink, written, tasks,
                   joined, byte_count, pos, chunks, result, exit_code, stderr, stdout>>

\* head_object succeeds but content_length is None: unwrap() panics.  The
\* panic leaves main; the process prints the panic message and ends with
\* status 101, or is aborted, depending on the build's panic strategy.  No
\* Result is ever returned.
HeadNoSize ==
    /\ pc = "head"
    /\ head' = "nosize"
    /\ pc' = "panicked"
    /\ wbuf' = DropWriter(wbuf)
    /\ stderr' = "panic"
    /\ exit_code' \in {ExitPanic, ExitAbort}
    /\ UNCHANGED <<mode, obj_size, chunk_size, file, sink, written, tasks,
                   start, end, joined, byte_count, pos, chunks, result, stdout>>

\* One iteration of `while start < object_size`.
PartitionStep ==
    /\ pc = "partition"
    /\ LoopCond(start, obj_size)
    /\ tasks' = Append(tasks, NewTask(start, end))
    /\ start' = NextStart(end)
    /\ end' = NextEnd(end, chunk_size, obj_size)
    /\ UNCHANGED <<mode, obj_size, chunk_size, pc, file, wbuf, sink, written,
                   head, joined, byte_count, pos, chunks, result, exit_code, stderr,
                   stdout>>

\* The loop condition is false: fall through to the join loop.
PartitionDone ==
    /\ pc = "partition"
    /\ ~LoopCond(start, obj_size)
    /\ pc' = "join"
    /\ UNCHANGED <<mode, obj_size, chunk_size, file, wbuf, sink, written, head,
                   tasks, start, end, joined, byte_count, pos, chunks, result,
                   exit_code, stderr, stdout>>

\* ----------------------------------------------------------- download_part
\* Mutation: the tasks are stopped as soon as the transfer function returns.
AliveUntilReturn == pc \notin {"returned", "exited", "panicked"}

\* Tasks run on the runtime's workers for as long as the process lives.
Alive == pc \notin {"exited", "panicked"}

SetTask(i, t) == [tasks EXCEPT ![i] = t]

\* Task j exists and has not produced its result yet.
StillRunning(j) == j >= 1 /\ tasks[j].st \in {"spawned", "streaming"}

\* Task i with its result: state s, error e, and the two history flags.
Done(i, s, e) ==
    [tasks[i] EXCEPT !.st = s, !.err = e,
                     !.early = StillRunning(i - 1),
                     !.late = (pc = "returned")]

TaskBody(i) == RangeBody(tasks[i].start, tasks[i].end, obj_size)

TaskUnchanged ==
    UNCHANGED <<mode, obj_size, chunk_size, pc, file, wbuf, sink, written, head,
                start, end, joined, byte_count, pos, chunks, result, exit_code, stderr,
                stdout>>

\* get_object().range(format!("bytes={}-{}", start, end)).send().await?
\* answered with a body; a range the object cannot satisfy is an error.
TaskSend(i) ==
    /\ Alive
    /\ tasks[i].st = "spawned"
    /\ tasks' = SetTask(i,
          IF Satisfiable(tasks[i].start, tasks[i].end, obj_size)
          THEN [tasks[i] EXCEPT !.st = "streaming", !.sent = @ + 1]
          ELSE [Done(i, "err", "GetObjectErr") EXCEPT !.sent = @ + 1])
    /\ TaskUnchanged

\* Mutation: a failed request is issued again instead of ending the task.
TaskSendRetry(i) ==
    /\ Alive
    /\ tasks[i].st = "spawned"
    /\ tasks' = SetTask(i, [tasks[i] EXCEPT !.sent = @ + 1])
    /\ TaskUnchanged

\* The ranged request fails (transport error, AccessDenied, NotFound).
TaskSendFail(i) ==
    /\ Alive
    /\ tasks[i].st = "spawned"
    /\ tasks' = SetTask(i, [Done(i, "err", "GetObjectErr") EXCEPT
                                !.sent = @ + 1])
    /\ TaskUnchanged

\* object.body.try_next() yields the next n bytes of the body:
\* out_buf.extend_from_slice(&bytes).
TaskRead(i, n) ==
    /\ Alive
    /\ tasks[i].st = "streaming"
    /\ Len(tasks[i].buf) + n <= Len(TaskBody(i))
    /\ tasks' = SetTask(i, [tasks[i] EXCEPT !.buf =
          @ \o SubSeq(TaskBody(i), Len(@) + 1, Len(@) + n)])
    /\ TaskUnchanged

\* try_next() returns an error: the task ends with Err.
TaskStreamFail(i) ==
    /\ Alive
    /\ tasks[i].st = "streaming"
    /\ tasks' = SetTask(i, Done(i, "err", "StreamErr"))
    /\ TaskUnchanged

\* try_next() returns None (body exhausted): Ok(out_buf).
TaskEnd(i) ==
    /\ Alive
    /\ tasks[i].st = "streaming"
    /\ Len(tasks[i].buf) = Len(TaskBody(i))
    /\ tasks' = SetTask(i, Done(i, "ok", ""))
    /\ TaskUnchanged

\* The task panics: its JoinHandle resolves to a JoinError.
TaskPanic(i) ==
    /\ Alive
    /\ tasks[i].st \in {"spawned", "streaming"}
    /\ tasks' = SetTask(i, Done(i, "err", "JoinErr"))
    /\ TaskUnchanged

\* ------------------------------------------------------------- join loop
\* Mutation: consume the handles from the back of the Vec.
JoinIndexReversed == Len(tasks) - joined

\* `for task in tasks`: the next handle awaited is the next in Vec order.
JoinIndex == joined + 1

\* task.await?? yields Ok(bytes); writer.write_all(&bytes).await? succeeds;
\* byte_count += bytes.len().
JoinOk ==
    /\ pc = "join"
    /\ joined < Len(tasks)
    /\ tasks[JoinIndex].st = "ok"
    /\ file' = BufFile(file, wbuf, tasks[JoinIndex].buf)
    /\ wbuf' = BufKeep(wbuf, tasks[JoinIndex].buf)
    /\ sink' = sink \o tasks[JoinIndex].buf
    /\ written' = Append(written, JoinIndex)
    /\ byte_count' = byte_count + Len(tasks[JoinIndex].buf)
    /\ joined' = joined + 1
    /\ UNCHANGED <<mode, obj_size, chunk_size, pc, head, tasks, start, end, pos, chunks,
                   result, exit_code, stderr, stdout>>

\* writer.write_all(&bytes).await? fails while handing bytes to the file;
\* only a proper prefix of them (length p) reached the file.
JoinWriteFail(p) ==
    /\ pc = "join"
    /\ joined < Len(tasks)
    /\ tasks[JoinIndex].st = "ok"
    /\ p < Len(BufIO(wbuf, tasks[JoinIndex].buf))
    /\ file' = file \o SubSeq(BufIO(wbuf, tasks[JoinIndex].buf), 1, p)
    /\ Return(ErrResult("WriteErr", 0))
    /\ UNCHANGED <<mode, obj_size, chunk_size, sink, written, head, tasks,
                   start, end, joined, byte_count, pos, chunks, exit_code, stderr,
                   stdout>>

\* Mutation: the error of whichever task has failed is returned at once,
\* without waiting for the tasks ahead of it.
JoinErrAnyFailed ==
    /\ pc = "join"
    /\ \E i \in 1..Len(tasks) :
          /\ tasks[i].st = "err"
          /\ Return(ErrResult(tasks[i].err, i))
    /\ UNCHANGED <<mode, obj_size, chunk_size, file, sink, written, head, tasks,
                   start, end, joined, byte_count, pos, chunks, exit_code,
                   stderr, stdout>>

\* Mutation: a failed task is skipped and the loop goes on.
JoinErrSkipped ==
    /\ pc = "join"
    /\ joined < Len(tasks)
    /\ tasks[JoinIndex].st = "err"
    /\ joined' = joined + 1
    /\ UNCHANGED <<mode, obj_size, chunk_size, pc, file, wbuf, sink, written,
                   head, tasks, start, end, byte_count, pos, chunks, result,
                   exit_code, stderr, stdout>>

\* task.await?? yields the task's error (or its JoinError): return it.
JoinErr ==
    /\ pc = "join"
    /\ joined < Len(tasks)
    /\ tasks[JoinIndex].st = "err"
    /\ Return(ErrResult(tasks[JoinIndex].err, JoinIndex))
    /\ UNCHANGED <<mode, obj_size, chunk_size, file, sink, written, head, tasks,
                   start, end, joined, byte_count, pos, chunks, exit_code, stderr,
                   stdout>>

\* Mutation: the loop expects one handle more than the Vec holds.
JoinDoneOffByOne ==
    /\ pc = "join"
    /\ joined = Len(tasks) + 1
    /\ Return(OkResult(byte_count))
    /\ UNCHANGED <<mode, obj_size, chunk_size, file, sink, written, head, tasks,
                   start, end, joined, byte_count, pos, chunks, exit_code,
                   stderr, stdout>>

\* The Vec is exhausted: Ok(byte_count).
JoinDone ==
    /\ pc = "join"
    /\ joined = Len(tasks)
    /\ Return(OkResult(byte_count))
    /\ UNCHANGED <<mode, obj_size, chunk_size, file, sink, written, head, tasks,
                   start, end, joined, byte_count, pos, chunks, exit_code, stderr,
                   stdout>>

\* ------------------------------------------------------------ get_object
\* client.get_object().send().await? fails.
SeqSendFail ==
    /\ pc = "send"
    /\ Return(ErrResult("GetObjectErr", 0))
    /\ UNCHANGED <<mode, obj_size, chunk_size, file, sink, written, head, tasks,
                   start, end, joined, byte_count, pos, chunks, exit_code, stderr,
                   stdout>>

SeqSend ==
    /\ pc = "send"
    /\ pc' = "stream"
    /\ UNCHANGED <<mode, obj_size, chunk_size, file, wbuf, sink, written, head,
                   tasks, start, end, joined, byte_count, pos, chunks, result,
                   exit_code, stderr, stdout>>

\* Mutation: every chunk is taken from the start of the body.
SeqBytesFromStart(n) == SubSeq(Content(obj_size), 1, n)

\* The next n bytes of the unranged body.
SeqBytes(n) == SubSeq(Content(obj_size), pos + 1, pos + n)

\* try_next() yields a chunk of n bytes; file.write_all(&bytes).await?
\* succeeds; byte_count += bytes_len.
SeqChunk(n) ==
    /\ pc = "stream"
    /\ pos + n <= obj_size
    /\ file' = file \o SeqBytes(n)
    /\ sink' = sink \o SeqBytes(n)
    /\ byte_count' = byte_count + n
    /\ pos' = pos + n
    /\ chunks' = Append(chunks, n)
    /\ UNCHANGED <<mode, obj_size, chunk_size, pc, wbuf, written, head, tasks,
                   start, end, joined, result, exit_code, stderr, stdout>>

\* try_next() yields a chunk of n bytes but file.write_all fails after a
\* proper prefix of p bytes.
SeqWriteFail(n, p) ==
    /\ pc = "stream"
    /\ pos + n <= obj_size
    /\ p < n
    /\ file' = file \o SubSeq(SeqBytes(n), 1, p)
    /\ pos' = pos + n
    /\ Return(ErrResult("WriteErr", 0))
    /\ UNCHANGED <<chunks, mode, obj_size, chunk_size, sink, written, head, tasks,
                   start, end, joined, byte_count, exit_code, stderr, stdout>>

\* try_next() returns an error.
SeqStreamFail ==
    /\ pc = "stream"
    /\ Return(ErrResult("StreamErr", 0))
    /\ UNCHANGED <<mode, obj_size, chunk_size, file, sink, written, head, tasks,
                   start, end, joined, byte_count, pos, chunks, exit_code, stderr,
                   stdout>>

\* try_next() returns None: Ok(byte_count).
SeqEnd ==
    /\ pc = "stream"
    /\ pos = obj_size
    /\ Return(OkResult(byte_count))
    /\ UNCHANGED <<mode, obj_size, chunk_size, file, sink, written, head, tasks,
                   start, end, joined, byte_count, pos, chunks, exit_code, stderr,
                   stdout>>

\* ------------------------------------------------------------------ main
\* Ok(bytes) => println!("Wrote {bytes}"); main returns, status 0.
ReportOk ==
    /\ pc = "returned"
    /\ result.kind = "Ok"
    /\ stdout' = result.n
    /\ exit_code' = 0
    /\ pc' = "exited"
    /\ UNCHANGED <<mode, obj_size, chunk_size, file, wbuf, sink, written, head,
                   tasks, start, end, joined, byte_count, pos, chunks, result, stderr>>

\* Err(err) => eprintln!("Error: {}", err); std::process::exit(1).
ReportErr ==
    /\ pc = "returned"
    /\ result.kind = "Err"
    /\ stderr' = result.err
    /\ exit_code' = ExitFailure
    /\ pc' = "exited"
    /\ UNCHANGED <<mode, obj_size, chunk_size, file, wbuf, sink, written, head,
                   tasks, start, end, joined, byte_count, pos, chunks, result, stdout>>

\* --------------------------------------------------------- specifications
Next ==
    \/ CreateFile
    \/ CreateFileFail
    \/ HeadFail
    \/ HeadOk
    \/ HeadNoSize
    \/ PartitionStep
    \/ PartitionDone
    \/ \E i \in 1..Len(tasks) : TaskSend(i)
    \/ \E i \in 1..Len(tasks) : TaskSendFail(i)
    \/ \E i \in 1..Len(tasks), n \in 1..(MaxChunk + 1) : TaskRead(i, n)
    \/ \E i \in 1..Len(tasks) : TaskStreamFail(i)
    \/ \E i \in 1..Len(tasks) : TaskEnd(i)
    \/ \E i \in 1..Len(tasks) : TaskPanic(i)
    \/ JoinOk
    \/ \E p \in 0..(MaxSize + 1) : JoinWriteFail(p)
    \/ JoinErr
    \/ JoinDone
    \/ SeqSendFail
    \/ SeqSend
    \/ \E n \in 1..MaxSize : SeqChunk(n)
    \/ \E n \in 1..MaxSize, p \in 0..MaxSize : SeqWriteFail(n, p)
    \/ SeqStreamFail
    \/ SeqEnd
    \/ ReportOk
    \/ ReportErr

Spec == Init /\ [][Next]_vars

\* Any step of task i, if it was spawned.
TaskAny(i) ==
    /\ i \in 1..Len(tasks)
    /\ \/ TaskSend(i)
       \/ TaskSendFail(i)
       \/ \E n \in 1..(MaxChunk + 1) : TaskRead(i, n)
       \/ TaskStreamFail(i)
       \/ TaskEnd(i)
       \/ TaskPanic(i)

\* A step of the partition loop, and a step of the join loop.
PartitionLoop == PartitionStep \/ PartitionDone
JoinLoop ==
    \/ JoinOk
    \/ \E p \in 0..(MaxSize + 1) : JoinWriteFail(p)
    \/ JoinErr
    \/ JoinDone

\* The runtime keeps polling the main future and every spawned task (ten
\* worker threads, no task blocks a worker), and every request or stream
\* read eventually yields a chunk, the end of the body or an error.
Fairness ==
    /\ WF_vars(PartitionLoop)
    /\ WF_vars(JoinLoop)
    /\ \A i \in 1..(MaxSize + 1) : WF_vars(TaskAny(i))

SpecFair == Init /\ [][Next]_vars /\ Fairness

\* The partition loop of get_object_multipart on its own.
NextPartition ==
    \/ PartitionStep
    \/ PartitionDone

SpecPartition == InitPartition /\ [][NextPartition]_vars

\* ------------------------------------------------------------ properties
RECURSIVE SequentialFetch(_)
\* Bytes obtained by fetching the first n generated ranges one after the
\* other, in partition order.
SequentialFetch(n) ==
    IF n = 0 THEN <<>>
    ELSE SequentialFetch(n - 1)
           \o RangeBody(tasks[n].start, tasks[n].end, obj_size)

\* The partition loop has finished generating ranges.
Partitioned == mode = "multipart" /\ head = "ok" /\ pc # "partition"

\* The transfer function has returned.
Returned == pc \in {"returned", "exited"}

\* C1 (ordering invariant): whatever the order in which the download_part
\* tasks complete, the join loop writes each task's buffer exactly once, in
\* ascending ordinal and start-offset order, so the bytes handed to the
\* writer are those of fetching range 0, range 1, ... one after the other;
\* when the function returns Ok every range has been written.
C1_OrderingInvariant ==
    mode = "multipart" =>
        /\ written = [k \in 1..Len(written) |-> k]
        /\ \A k \in 1..(Len(written) - 1) :
              tasks[written[k]].start < tasks[written[k + 1]].start
        /\ sink = SequentialFetch(Len(written))
        /\ result.kind = "Ok" => Len(written) = Len(tasks)

\* Witness of C1: a successful transfer of at least three ranges in which
\* some task completed before the task spawned ahead of it.
C1_Witness ==
    /\ mode = "multipart"
    /\ result.kind = "Ok"
    /\ Len(tasks) >= 3
    /\ \E i \in 1..Len(tasks) : tasks[i].early
    /\ tasks[Len(tasks)].early

\* Ranges (closed-inclusive) that contain byte offset b.
Covering(b) ==
    {k \in 1..Len(tasks) : tasks[k].start <= b /\ b <= tasks[k].end}

\* Offsets at which coverage is evaluated: every offset of a small object;
\* for the 25 MiB object the first and last offset and the offsets at and
\* next to every range boundary.
ProbeOffsets ==
    IF obj_size <= MaxPartSize + 1
    THEN 0..(obj_size - 1)
    ELSE {b \in {0, obj_size - 1}
                 \cup UNION {{tasks[k].start - 1, tasks[k].start,
                              tasks[k].start + 1, tasks[k].end - 1,
                              tasks[k].end, tasks[k].end + 1} :
                             k \in 1..Len(tasks)} :
            0 <= b /\ b < obj_size}

\* C2 (partition completeness): for object_size > 0 the generated ranges,
\* read as closed intervals [start, end], contain every offset of
\* [0, object_size) exactly once; the first starts at 0 and each next range
\* starts right after the end of the previous one (no overlap, no gap).
C2_PartitionCompleteness ==
    (Partitioned /\ obj_size > 0) =>
        /\ \A b \in ProbeOffsets : Cardinality(Covering(b)) = 1
        /\ tasks[1].start = 0
        /\ \A k \in 1..(Len(tasks) - 1) :
              /\ tasks[k + 1].start = tasks[k].end + 1
              /\ tasks[k].start <= tasks[k].end

\* Witness of C2: a partition into at least three ranges whose size is not
\* a multiple of the chunk size.
C2_Witness ==
    /\ Partitioned
    /\ Len(tasks) >= 3
    /\ obj_size % chunk_size # 0

\* ceil(a / b) for b > 0.
CeilDiv(a, b) == (a + b - 1) \div b

\* C3 (clamping), as claimed: no generated range ends beyond offset
\* object_size - 1, and the final range ends exactly at object_size - 1.
\* The code starts with end = chunk_size and clamps end to object_size, so
\* the first range of a small object and the final range of every object
\* end past the last byte.
C3_Clamping ==
    (Partitioned /\ obj_size > 0) =>
        /\ \A k \in 1..Len(tasks) : tasks[k].end <= obj_size - 1
        /\ tasks[Len(tasks)].end = obj_size - 1

\* C4 (partition count), as claimed: the number of generated ranges is
\* ceil(object_size / chunk_size).  The code's first range holds
\* chunk_size + 1 bytes, so an object of k * chunk_size + 1 bytes gets one
\* range fewer.
C4_PartitionCount ==
    (Partitioned /\ obj_size > 0) =>
        Len(tasks) = CeilDiv(obj_size, chunk_size)

\* C5 (exact boundaries), as claimed: the k-th range (k = 0, 1, ...) is
\* [k * C, min((k + 1) * C, object_size) - 1]; for the 25 MiB object and
\* the 10 MiB chunk size that is [0,10485759], [10485760,20971519],
\* [20971520,26214399].  The code generates [0,C], [C+1,2C], ... and ends
\* the final range at object_size.
C5_ExactBoundaries ==
    Partitioned =>
        /\ \A k \in 1..Len(tasks) :
              /\ tasks[k].start = (k - 1) * chunk_size
              /\ tasks[k].end = Min(k * chunk_size, obj_size) - 1
        /\ (obj_size = 26214400 /\ chunk_size = 10485760) =>
              /\ Len(tasks) = 3
              /\ <<tasks[1].start, tasks[1].end>> = <<0, 10485759>>
              /\ <<tasks[2].start, tasks[2].end>> = <<10485760, 20971519>>
              /\ <<tasks[3].start, tasks[3].end>> = <<20971520, 26214399>>

\* What the code generates for the 25 MiB object with its own chunk size.
ScenarioRanges ==
    (Partitioned /\ obj_size = ScenarioSize /\ chunk_size = DefaultChunkSize)
        => [k \in 1..Len(tasks) |-> <<tasks[k].start, tasks[k].end>>]
             = << <<0, 10485760>>, <<10485761, 20971520>>,
                  <<20971521, 26214400>> >>

\* Some download_part task has failed.
SomeTaskFailed == \E i \in 1..Len(tasks) : tasks[i].st = "err"

\* C6 (failure propagation): get_object_multipart never returns Ok when a
\* download_part task has failed (request error, stream error or join
\* error); it returns an error, and main prints that error to standard
\* error, prints no byte count and exits with status 1.
C6_FailurePropagation ==
    mode = "multipart" =>
        /\ result.kind = "Ok" => \A i \in 1..Len(tasks) : tasks[i].st = "ok"
        /\ (Returned /\ SomeTaskFailed) => result.kind = "Err"
        /\ (pc = "exited" /\ SomeTaskFailed) =>
              /\ exit_code = ExitFailure
              /\ stderr = result.err
              /\ stderr # ""
              /\ stdout = -1

\* Witness of C6: the process has exited with status 1 on the error of a
\* failed task while another task had succeeded.
C6_Witness ==
    /\ mode = "multipart"
    /\ pc = "exited"
    /\ exit_code = ExitFailure
    /\ result.task >= 1
    /\ stderr = tasks[result.task].err
    /\ \E j \in 1..Len(tasks) : tasks[j].st = "ok"

\* C7 (byte-count accuracy), as claimed: whenever a transfer returns Ok(n),
\* n is the size of the destination file and the size of the source object.
\* get_object_multipart never flushes its BufWriter, so bytes still in the
\* writer's buffer when the function returns are counted but never reach
\* the file.
C7_ByteCountAccuracy ==
    result.kind = "Ok" =>
        /\ result.n = Len(file)
        /\ result.n = obj_size

\* The part of C7 that the code keeps: the count always equals the object
\* size and the bytes accepted by write_all, and get_object's file has
\* exactly that many bytes.
ByteCountOfSink ==
    result.kind = "Ok" =>
        /\ result.n = obj_size
        /\ result.n = Len(sink)
        /\ mode = "sequential" => result.n = Len(file)

\* C8 (round trip, strategy equivalence), as claimed: after a transfer
\* without failure the destination file holds exactly the source object's
\* bytes, under either strategy (so both strategies give the same file).
\* Fails for get_object_multipart because of the missing flush (C7).
C8_RoundTrip ==
    result.kind = "Ok" => file = Content(obj_size)

\* What the code keeps of C8: both strategies hand the writer exactly the
\* object's bytes, and the file is a prefix of them.
SinkRoundTrip ==
    result.kind = "Ok" =>
        /\ sink = Content(obj_size)
        /\ file = SubSeq(sink, 1, Len(file))

\* C9 (SizeUnavailable), as claimed: when head_object reports no size the
\* function returns an Err, no task is spawned, nothing is written, and the
\* process prints the error and exits with status 1.  The code calls
\* unwrap() on the absent content_length and panics instead.
C9_SizeUnavailable ==
    head = "nosize" =>
        /\ tasks = <<>>
        /\ sink = <<>>
        /\ file = <<>>
        /\ Returned
        /\ result.kind = "Err"
        /\ pc = "exited" => (exit_code = ExitFailure /\ stderr = result.err)

\* What the code keeps of C9: nothing is spawned or written.
NoSizeNoWork ==
    head = "nosize" => (tasks = <<>> /\ sink = <<>> /\ file = <<>>)

\* C10 (no writes past the failure point): when get_object_multipart
\* returns the error of a download_part task, that task is the failed task
\* of lowest ordinal k, and the writer has received exactly the buffers of
\* the ranges before k, in order, and nothing of range k or any later
\* range, whether or not later ranges had already completed.
C10_NoWritesPastFailure ==
    (mode = "multipart" /\ Returned /\ result.kind = "Err"
       /\ result.task >= 1) =>
        /\ tasks[result.task].st = "err"
        /\ \A j \in 1..(result.task - 1) : tasks[j].st = "ok"
        /\ written = [j \in 1..(result.task - 1) |-> j]
        /\ sink = SequentialFetch(result.task - 1)
        /\ Len(file) <= Len(sink)

\* Witness of C10: the function has just returned the error of the second
\* task; the first range was written, and the third task had completed
\* successfully while the second was still running.
C10_Witness ==
    /\ mode = "multipart"
    /\ pc = "returned"
    /\ result.kind = "Err"
    /\ result.task = 2
    /\ Len(tasks) >= 3
    /\ tasks[3].st = "ok"
    /\ tasks[3].early
    /\ sink # <<>>

\* C11 (write after all succeed), as claimed: whenever the Parallel Range
\* Fetcher has written at least one byte, every download_part task has
\* completed successfully.  The join loop writes range k as soon as tasks
\* 0..k are done, while later tasks may still run or have failed.
C11_WriteAfterAllSucceed ==
    (mode = "multipart" /\ sink # <<>>) =>
        \A i \in 1..Len(tasks) : tasks[i].st = "ok"

\* C11 as amended: a range's buffer is written only after its own task and
\* every task of lower ordinal have completed successfully.
C11_WriteAfterPrefixSucceeds ==
    mode = "multipart" =>
        \A k \in 1..Len(written) :
            \A j \in 1..written[k] : tasks[j].st = "ok"

\* Witness of C11: bytes of the first range have been written while a
\* later task is still running.
C11_Witness ==
    /\ mode = "multipart"
    /\ pc = "join"
    /\ sink # <<>>
    /\ Len(written) = 1
    /\ StillRunning(Len(tasks))

\* A step of task i that does not fail.
TaskProgress(i) ==
    \/ TaskSend(i)
    \/ \E n \in 1..(MaxChunk + 1) : TaskRead(i, n)
    \/ TaskEnd(i)

\* C12 (no cancellation), as claimed: every dispatched download_part task
\* runs to completion, also after a sibling failed and the function
\* returned its error; stated on the finished process: when the process
\* has ended no task is left without a result.  main calls
\* std::process::exit(1) on the error, which ends the tasks still running.
C12_RunToCompletion ==
    (mode = "multipart" /\ pc = "exited") =>
        \A i \in 1..Len(tasks) : ~StillRunning(i)

\* C12 as amended: neither a sibling's failure nor the return of the
\* function stops a task: for as long as the process has not ended every
\* unfinished task can take its next step; tasks are left unfinished only
\* by the process exit that follows a returned error.
C12_NoCancellationBeforeExit ==
    mode = "multipart" =>
        /\ \A i \in 1..Len(tasks) :
              (StillRunning(i) /\ pc \notin {"exited", "panicked"})
                  => ENABLED TaskProgress(i)
        /\ (pc = "exited" /\ \E i \in 1..Len(tasks) : StillRunning(i)) =>
              (result.kind = "Err" /\ exit_code = ExitFailure)

\* Witness of C12: the function has returned the error of the first task
\* and, after that return, a sibling task ran to successful completion.
C12_Witness ==
    /\ mode = "multipart"
    /\ pc = "returned"
    /\ result.kind = "Err"
    /\ result.task = 1
    /\ \E i \in 2..Len(tasks) : tasks[i].st = "ok" /\ tasks[i].late

\* C13 (dispatch): every task is spawned before the first handle is
\* awaited and before the first byte is written; a task issues its ranged
\* request once (none while only spawned, one once it streams or has its
\* body), never again after a failure; no two tasks request the same range;
\* and the Parallel Range Fetcher never reads the unranged stream (no
\* fallback to the sequential strategy), nor does get_object spawn tasks.
C13_Dispatch ==
    /\ mode = "sequential" => tasks = <<>>
    /\ mode = "multipart" =>
          /\ pc = "partition" => (joined = 0 /\ written = <<>> /\ sink = <<>>)
          /\ (joined > 0 \/ sink # <<>>) => Partitioned
          /\ pos = 0 /\ chunks = <<>>
          /\ \A i \in 1..Len(tasks) :
                /\ tasks[i].sent <= 1
                /\ tasks[i].st = "spawned" => tasks[i].sent = 0
                /\ tasks[i].st \in {"streaming", "ok"} => tasks[i].sent = 1
                /\ tasks[i].err \in {"GetObjectErr", "StreamErr"}
                      => tasks[i].sent = 1
          /\ \A i, j \in 1..Len(tasks) :
                i # j => tasks[i].start # tasks[j].start

\* Witness of C13: three or more tasks, one per range, are all in flight
\* at once (each has issued its one request and is streaming) before the
\* join loop has consumed anything.
C13_Witness ==
    /\ mode = "multipart"
    /\ pc = "join"
    /\ joined = 0
    /\ Len(tasks) >= 3
    /\ \A i \in 1..Len(tasks) :
          tasks[i].st = "streaming" /\ tasks[i].sent = 1

\* C14 (zero-length object): when head_object reports object_size = 0,
\* get_object_multipart generates no range and spawns no task (so no ranged
\* request is issued), writes nothing, and returns Ok(0); the destination
\* is left as the empty file File::create made, and main prints 0 and
\* ends with status 0.
C14_ZeroLength ==
    (mode = "multipart" /\ head = "ok" /\ obj_size = 0) =>
        /\ tasks = <<>>
        /\ sink = <<>> /\ wbuf = <<>> /\ file = <<>>
        /\ pc \in {"partition", "join", "returned", "exited"}
        /\ Returned => result = OkResult(0)
        /\ pc = "exited" => (exit_code = 0 /\ stdout = 0 /\ stderr = "")

\* Witness of C14: the transfer of an empty object has ended with Ok(0).
C14_Witness ==
    /\ mode = "multipart"
    /\ head = "ok"
    /\ obj_size = 0
    /\ pc = "exited"
    /\ result = OkResult(0)
    /\ file = <<>>

RECURSIVE SumSeq(_)
\* Sum of a sequence of lengths.
SumSeq(q) == IF q = <<>> THEN 0 ELSE q[1] + SumSeq(Tail(q))

\* get_object has created the destination file.
SeqCreated ==
    mode = "sequential" /\ pc # "create" /\ result.err # "CreateErr"

\* The first k chunks of the stream, k = Len(chunks), in delivery order.
ChunksWritten == SubSeq(Content(obj_size), 1, SumSeq(chunks))

\* C15 (sequential streamer abort), as claimed: get_object writes the
\* chunks in delivery order; whenever it stops on an error (stream read or
\* file write) after k chunks were written the destination holds exactly
\* those k chunks; and Ok carries the sum of the chunk lengths.  A failing
\* write_all may already have put part of its chunk into the file.
C15_ExactlyFirstChunks ==
    SeqCreated =>
        /\ byte_count = SumSeq(chunks)
        /\ file = ChunksWritten
        /\ result.kind = "Ok" => result.n = SumSeq(chunks)

\* C15 as amended: the destination always holds the k chunks written so
\* far, in delivery order; after a stream-read error exactly those; after
\* a failed write_all those followed by a proper prefix of the chunk whose
\* write failed; nothing is written after the error; Ok carries the sum
\* of the chunk lengths, which is the whole stream.
C15_SequentialAbort ==
    SeqCreated =>
        /\ byte_count = SumSeq(chunks)
        /\ sink = ChunksWritten
        /\ result.err # "WriteErr" =>
              (file = ChunksWritten /\ pos = SumSeq(chunks))
        /\ result.err = "WriteErr" =>
              /\ file = SubSeq(Content(obj_size), 1, Len(file))
              /\ SumSeq(chunks) <= Len(file)
              /\ Len(file) < pos
        /\ result.kind = "Ok" =>
              (result.n = SumSeq(chunks) /\ SumSeq(chunks) = obj_size)

\* Witness of C15: the stream failed after two chunks had been written and
\* the process has exited, the file holding exactly those two chunks.
C15_Witness ==
    /\ SeqCreated
    /\ pc = "exited"
    /\ result.err = "StreamErr"
    /\ Len(chunks) = 2
    /\ file = ChunksWritten
    /\ Len(file) < obj_size

\* C16 (error selection by partition order): the task error returned by
\* get_object_multipart is the error of the failed task of lowest ordinal,
\* whichever task failed first in time; and it is returned only after every
\* task of lower ordinal has completed (successfully), never while one of
\* them is still outstanding.
C16_ErrorByPartitionOrder ==
    (mode = "multipart" /\ Returned /\ result.kind = "Err"
       /\ result.task >= 1) =>
        /\ result.task <= Len(tasks)
        /\ tasks[result.task].st = "err"
        /\ result.err = tasks[result.task].err
        /\ \A j \in 1..(result.task - 1) :
              ~StillRunning(j) /\ tasks[j].st = "ok"
        /\ joined = result.task - 1

\* Witness of C16: the second task failed while the first was still
\* running, the first failed later with another error, and the error
\* returned is the first task's.
C16_Witness ==
    /\ mode = "multipart"
    /\ pc = "returned"
    /\ result.task = 1
    /\ Len(tasks) >= 2
    /\ tasks[2].st = "err"
    /\ tasks[2].early
    /\ tasks[2].err # tasks[1].err
    /\ result.err = tasks[1].err

\* C17 (destination not preserved on error): in both transfer functions
\* the destination is created/truncated before any remote call, so once
\* File::create has succeeded nothing of the previous contents is left:
\* the file holds only bytes of the object (none after a failing first
\* request), also when the transfer fails.
C17_DestinationNotPreserved ==
    /\ pc = "create" =>
          (head = "none" /\ tasks = <<>> /\ pos = 0 /\ file = OldContents)
    /\ (pc # "create" /\ result.err # "CreateErr") =>
          /\ Len(file) <= obj_size
          /\ file = SubSeq(Content(obj_size), 1, Len(file))
          /\ file # OldContents
          /\ (\/ result.err = "HeadErr"
              \/ (mode = "sequential" /\ result.err = "GetObjectErr"))
                => file = <<>>
          /\ head = "nosize" => file = <<>>

\* Witness of C17: the very first remote request failed (head_object, or
\* the unranged get_object) and the process exited with status 1, the
\* previous contents of the destination being gone.
C17_Witness ==
    /\ pc = "exited"
    /\ exit_code = ExitFailure
    /\ \/ result.err = "HeadErr"
       \/ (mode = "sequential" /\ result.err = "GetObjectErr")
    /\ OldContents # <<>>
    /\ file = <<>>

\* C18 (well-formed requests): every (start, end) pair handed to
\* download_part has start <= end and start < object_size: the request is
\* satisfiable by the object and the capacity hint end - start does not
\* underflow.
C18_WellFormedRequests ==
    \A k \in 1..Len(tasks) :
        /\ tasks[k].start <= tasks[k].end
        /\ tasks[k].start < obj_size
        /\ tasks[k].end - tasks[k].start >= 0
        /\ Satisfiable(tasks[k].start, tasks[k].end, obj_size)

\* Witness of C18: a finished partition of at least three ranges whose
\* last range is a single offset (start = end).
C18_Witness ==
    /\ Partitioned
    /\ Len(tasks) >= 3
    /\ tasks[Len(tasks)].start = tasks[Len(tasks)].end

\* C19 (termination): every iteration of the partition loop strictly
\* increases start, and, the runtime being fair and every spawned task
\* eventually producing its result, a get_object_multipart call that has
\* obtained the object size eventually returns Ok(byte count) or an error.
C19_Termination ==
    /\ [][Len(tasks') # Len(tasks) =>
            /\ pc = "partition" /\ start < obj_size
            /\ Len(tasks') = Len(tasks) + 1
            /\ start' > start]_vars
    /\ (mode = "multipart" /\ pc = "partition")
          ~> (Returned /\ result.kind \in {"Ok", "Err"})

\* Witness of C19: a call that partitioned the object into at least three
\* ranges has consumed every handle and returned.
C19_Witness ==
    /\ mode = "multipart"
    /\ pc = "returned"
    /\ ~LoopCond(start, obj_size)
    /\ Len(tasks) >= 3
    /\ joined = Len(tasks)
    /\ result.kind = "Ok"

====
